---- MODULE Spec2Model ----
(***************************************************************************)
(* A model of react-native-node-api's `link` command (the host CLI's       *)
(* program) and of ferric's cargo driver (cargo.ts).                       *)
(*                                                                         *)
(* Spec       : the `link` command action, run after run, over persistent  *)
(*              platform output trees.                                     *)
(* The pure functions of cargo.ts are checked under specifications of      *)
(* their own, further down.                                                *)
(***************************************************************************)
EXTENDS Integers, Sequences, FiniteSets, TLC

(* ---------------------------------------------------------------- bounds *)
\* How many distinct native modules the dependency tree can ship.
NumModules == 2
\* How many times a source artifact is touched (advancing its mtime).
MaxClock == 1

Modules == 1..NumModules

(* ------------------------------------------------------------- link: data *)
\* PLATFORMS of path-utils, in the order the action pushes them.
PlatformNames == {"android", "apple"}

\* The three macOS slices whose framework links the action restores.
MacSlices == {"macos-x86_64", "macos-arm64", "macos-arm64_x86_64"}

VARIABLES
    pc,           \* where the action is: idle, linking, report, pruning, restore, done, rejected
    opts,         \* the parsed options {force, prune, android, apple}
    platforms,    \* const platforms: PlatformName[]
    pi,           \* index of the for-loop over platforms
    discoveredOf, \* per platform: the modules discovery returned in this run
    discoveryDone,\* per platform: whether discovery has completed in this run
    mstate,       \* per module of the current platform: its linking state
    linkerCalls,  \* per platform and module: invocations of the platform linker in this run
    modulesOf,    \* per platform: `modules`, the LinkResult[] linkModules resolved to
    logged,       \* console lines of this run: <<platform, kind, module>>
    exitCode,     \* process.exitCode
    toDelete,     \* the Pruner's pending deletions
    tree,         \* per platform: the output tree, canonical name -> mtime
    srcTime,      \* per module: mtime of the source artifact
    clock,        \* the filesystem's time
    frameworks,   \* macOS slices in which the restoration found weak-node-api.framework
    restoreCalls, \* slices restoreFrameworkLinks was invoked for in this run
    treeAtStart,  \* history: the output trees when this run started
    settled,      \* history: per platform, the modules whose output the last run left current
    secondRun     \* history: per platform, whether this run finds every discovered module settled

linkVars == <<pc, opts, platforms, pi, discoveredOf, discoveryDone, mstate,
              linkerCalls, modulesOf, logged, exitCode, toDelete, tree, srcTime,
              clock, frameworks, restoreCalls, treeAtStart, settled, secondRun>>

(* The cargo driver's state (cargo.ts), used by the specifications below.  *)
VARIABLES
    call,         \* which function of cargo.ts is being applied, and whether it has run
    input,        \* its arguments and the part of the environment it reads
    output        \* what it returned, or that it threw

cargoVars == <<call, input, output>>

(* The weak-node-api prebuild's macOS framework bundles, as the restoration of
   their links sees them.                                                    *)
VARIABLES
    bundles,        \* per macOS slice: what is on disk, and which links the bundle has
    bundlesAtStart, \* history: the bundles when this run started
    restoring,      \* slices whose restoreFrameworkLinks call is still pending
    created         \* <<slice, link>>: the links this run created

bundleVars == <<bundles, bundlesAtStart, restoring, created>>

vars == <<linkVars, cargoVars, bundleVars>>

(* --------------------------------------------------------- link: helpers *)
RECURSIVE SeqOfSet(_)
\* The members of a set of modules as an array, in discovery order.
SeqOfSet(S) ==
    IF S = {} THEN <<>>
    ELSE LET m == CHOOSE x \in S : \A y \in S : x <= y
         IN  <<m>> \o SeqOfSet(S \ {m})

Range(s) == {s[i] : i \in 1..Len(s)}

\* platforms.push("android") / platforms.push("apple")
PlatformsOf(o) ==
    (IF o.android THEN <<"android">> ELSE <<>>) \o
    (IF o.apple THEN <<"apple">> ELSE <<>>)

NoPlatformMutant(ps) == FALSE
\* if (platforms.length === 0)
NoPlatform(ps) == Len(ps) = 0

IncrementalMutant(o) == FALSE
\* incremental: !force
Incremental(o) == ~o.force

\* The output already exists with an mtime at or after the source's.
UpToDate(p, m) == m \in DOMAIN tree[p] /\ tree[p][m] >= srcTime[m]

Terminal == {"UpToDate", "Linked", "Failed"}

\* linkModules' promise settles once every module has its result.
LinkModulesResolved(p) ==
    discoveryDone[p] /\ \A m \in discoveredOf[p] : mstate[p][m] \in Terminal

AwaitMutant(p) == discoveryDone[p]
\* const modules = await oraPromise(() => linkModules(...))
AwaitLinkModules(p) == LinkModulesResolved(p)

\* One module's LinkResult.
ResultOf(p, m) ==
    CASE mstate[p][m] = "UpToDate" ->
            [originalPath |-> m, outputPath |-> m, skipped |-> TRUE]
      [] mstate[p][m] = "Linked" ->
            [originalPath |-> m, outputPath |-> m, skipped |-> FALSE]
      [] mstate[p][m] = "Failed" ->
            [originalPath |-> m, failure |-> "SpawnFailure"]
      [] OTHER -> [originalPath |-> m]

\* The LinkResult[] linkModules resolves to.
LinkResults(p) ==
    LET ms == SeqOfSet(discoveredOf[p])
    IN  [i \in 1..Len(ms) |-> ResultOf(p, ms[i])]

IsFailure(result) == "failure" \in DOMAIN result
IsLinked(result) == "outputPath" \in DOMAIN result

\* modules.filter((result) => "failure" in result)
Failures(modules) == SelectSeq(modules, IsFailure)
\* modules.filter((result) => "outputPath" in result)
Linked(modules) == SelectSeq(modules, IsLinked)

\* The lines the two reporting loops print for one platform.
ReportLines(p, modules) ==
    {<<p, IF r.skipped THEN "Skipped" ELSE "Linked", r.originalPath>> :
        r \in Range(Linked(modules))}
    \cup {<<p, "Failed", r.originalPath>> : r \in Range(Failures(modules))}
    \cup (IF Len(modules) = 0 THEN {<<p, "NoModules", 0>>} ELSE {})

\* assert(failure instanceof SpawnFailure), for every reported failure
FailuresAreSpawnFailures(modules) ==
    \A r \in Range(Failures(modules)) : r.failure = "SpawnFailure"

ReportExitCodeMutant(modules, code) == code
\* process.exitCode = 1, once per reported failure
ReportExitCode(modules, code) ==
    IF Len(Failures(modules)) > 0 THEN 1 ELSE code

ShouldPruneMutant(o) == FALSE
\* if (prune)
ShouldPrune(o) == o.prune

\* The entries the Pruner deletes: those not among the successful outputs.
PruneSet(p, modules) ==
    DOMAIN tree[p] \ {r.outputPath : r \in Range(Linked(modules))}

\* Where the action goes once a platform is finished.
NextPc == IF pi < Len(platforms) THEN "linking"
          ELSE IF opts.apple THEN "restore" ELSE "done"
NextPi == IF pi < Len(platforms) THEN pi + 1 ELSE pi

Platform == platforms[pi]

existsSyncMutant(slice, onDisk) == TRUE
\* fs.existsSync(frameworkPath), frameworkPath in the slice's directory
existsSync(slice, onDisk) == slice \in onDisk

NoOpts == [force |-> FALSE, prune |-> TRUE, android |-> FALSE, apple |-> FALSE]
EmptyTree == [m \in {} |-> 0]

(* --------------------------------------------------------- link: actions *)
CargoIdle ==
    /\ call = "none"
    /\ input = <<>>
    /\ output = <<>>

NoBundle == [kind |-> "noSlice", links |-> {}]

BundlesIdle ==
    /\ bundles = [s \in MacSlices |-> NoBundle]
    /\ bundlesAtStart = bundles
    /\ restoring = {}
    /\ created = {}

LinkInit ==
    /\ pc = "idle"
    /\ opts = NoOpts
    /\ platforms = <<>>
    /\ pi = 1
    /\ discoveredOf = [p \in PlatformNames |-> {}]
    /\ discoveryDone = [p \in PlatformNames |-> FALSE]
    /\ mstate = [p \in PlatformNames |-> [m \in Modules |-> "None"]]
    /\ linkerCalls = [p \in PlatformNames |-> [m \in Modules |-> 0]]
    /\ modulesOf = [p \in PlatformNames |-> <<>>]
    /\ logged = {}
    /\ exitCode = 0
    /\ toDelete = {}
    /\ tree = [p \in PlatformNames |-> EmptyTree]
    /\ srcTime = [m \in Modules |-> 0]
    /\ clock = 0
    /\ frameworks = {}
    /\ restoreCalls = {}
    /\ treeAtStart = [p \in PlatformNames |-> EmptyTree]
    /\ settled = [p \in PlatformNames |-> {}]
    /\ secondRun = [p \in PlatformNames |-> FALSE]

Init == LinkInit /\ CargoIdle /\ BundlesIdle

\* What a process owns, as a fresh process holds it.
RunReset ==
    /\ pi' = 1
    /\ discoveredOf' = [p \in PlatformNames |-> {}]
    /\ discoveryDone' = [p \in PlatformNames |-> FALSE]
    /\ mstate' = [p \in PlatformNames |-> [m \in Modules |-> "None"]]
    /\ linkerCalls' = [p \in PlatformNames |-> [m \in Modules |-> 0]]
    /\ modulesOf' = [p \in PlatformNames |-> <<>>]
    /\ logged' = {}
    /\ toDelete' = {}
    /\ restoreCalls' = {}
    /\ frameworks' = {}
    /\ secondRun' = [p \in PlatformNames |-> FALSE]
    /\ treeAtStart' = tree

\* A new process runs `link`: the filesystem is what the last one left.
FreshRun(o) ==
    /\ pc = "idle"
    /\ opts' = o
    /\ platforms' = PlatformsOf(o)
    /\ RunReset
    /\ UNCHANGED <<tree, srcTime, clock, settled>>

Options == [force : BOOLEAN, prune : BOOLEAN, android : BOOLEAN, apple : BOOLEAN]

\* `link` with neither --android nor --apple: report, exit code 1, return.
LinkNoPlatform ==
    \E o \in Options :
        /\ FreshRun(o)
        /\ NoPlatform(PlatformsOf(o))
        /\ exitCode' = 1
        /\ pc' = "done"
        /\ UNCHANGED <<cargoVars, bundleVars>>

\* `link` with a platform: enter the loop and call linkModules for the first one.
LinkBegin ==
    \E o \in Options :
        /\ FreshRun(o)
        /\ ~NoPlatform(PlatformsOf(o))
        /\ exitCode' = 0
        /\ pc' = IF Len(PlatformsOf(o)) > 0 THEN "linking"
                 ELSE IF o.apple THEN "restore" ELSE "done"
        /\ UNCHANGED <<cargoVars, bundleVars>>

\* Discovery completes with the platform's modules.
Discover ==
    /\ pc = "linking"
    /\ ~discoveryDone[Platform]
    /\ \E ms \in SUBSET Modules :
        /\ discoveredOf' = [discoveredOf EXCEPT ![Platform] = ms]
        /\ mstate' = [mstate EXCEPT ![Platform] =
                        [m \in Modules |-> IF m \in ms THEN "Discovered" ELSE "None"]]
        /\ secondRun' = [secondRun EXCEPT ![Platform] = ms # {} /\ ms \subseteq settled[Platform]]
    /\ discoveryDone' = [discoveryDone EXCEPT ![Platform] = TRUE]
    /\ UNCHANGED <<pc, opts, platforms, pi, linkerCalls, modulesOf, logged, exitCode,
                   toDelete, tree, srcTime, clock, frameworks, restoreCalls,
                   treeAtStart, settled, cargoVars, bundleVars>>

\* Discovery hits unreadable state: linkModules rejects, and so does the action.
DiscoverFails ==
    /\ pc = "linking"
    /\ ~discoveryDone[Platform]
    /\ pc' = "rejected"
    /\ UNCHANGED <<opts, platforms, pi, discoveredOf, discoveryDone, mstate,
                   linkerCalls, modulesOf, logged, exitCode, toDelete, tree, srcTime,
                   clock, frameworks, restoreCalls, treeAtStart, settled, secondRun,
                   cargoVars, bundleVars>>

\* One module's incremental check: up to date, or handed to the platform linker.
LinkCheck(p, m) ==
    /\ mstate[p][m] = "Discovered"
    /\ IF Incremental(opts) /\ UpToDate(p, m)
       THEN /\ mstate' = [mstate EXCEPT ![p][m] = "UpToDate"]
            /\ UNCHANGED linkerCalls
       ELSE /\ mstate' = [mstate EXCEPT ![p][m] = "Materializing"]
            /\ linkerCalls' = [linkerCalls EXCEPT ![p][m] = @ + 1]
    /\ UNCHANGED <<pc, opts, platforms, pi, discoveredOf, discoveryDone, modulesOf,
                   logged, exitCode, toDelete, tree, srcTime, clock, frameworks,
                   restoreCalls, treeAtStart, settled, secondRun, cargoVars, bundleVars>>

\* The platform linker wrote the module's output.
LinkSucceed(p, m) ==
    /\ mstate[p][m] = "Materializing"
    /\ mstate' = [mstate EXCEPT ![p][m] = "Linked"]
    /\ tree' = [tree EXCEPT ![p] =
                  [x \in DOMAIN tree[p] \cup {m} |-> IF x = m THEN clock ELSE tree[p][x]]]
    /\ UNCHANGED <<pc, opts, platforms, pi, discoveredOf, discoveryDone, linkerCalls,
                   modulesOf, logged, exitCode, toDelete, srcTime, clock, frameworks,
                   restoreCalls, treeAtStart, settled, secondRun, cargoVars, bundleVars>>

\* The platform linker's copy failed: a failure record, nothing written.
LinkFail(p, m) ==
    /\ mstate[p][m] = "Materializing"
    /\ mstate' = [mstate EXCEPT ![p][m] = "Failed"]
    /\ UNCHANGED <<pc, opts, platforms, pi, discoveredOf, discoveryDone, linkerCalls,
                   modulesOf, logged, exitCode, toDelete, tree, srcTime, clock,
                   frameworks, restoreCalls, treeAtStart, settled, secondRun, cargoVars, bundleVars>>

\* History: the modules a finished platform leaves with a current output.
Finished(p, modules) ==
    [settled EXCEPT ![p] = {r.originalPath : r \in Range(Linked(modules))}]

\* linkModules resolved: the two reporting loops, then the Pruner or the next platform.
Report ==
    /\ pc = "linking"
    /\ AwaitLinkModules(Platform)
    /\ LET modules == LinkResults(Platform)
       IN  /\ modulesOf' = [modulesOf EXCEPT ![Platform] = modules]
           /\ IF FailuresAreSpawnFailures(modules)
              THEN /\ logged' = logged \cup ReportLines(Platform, modules)
                   /\ exitCode' = ReportExitCode(modules, exitCode)
                   /\ IF ShouldPrune(opts)
                      THEN /\ pc' = "pruning"
                           /\ toDelete' = PruneSet(Platform, modules)
                           /\ UNCHANGED <<pi, settled>>
                      ELSE /\ pc' = NextPc
                           /\ pi' = NextPi
                           /\ settled' = Finished(Platform, modules)
                           /\ UNCHANGED toDelete
              ELSE /\ pc' = "rejected"
                   /\ logged' = logged \cup
                        {l \in ReportLines(Platform, modules) : l[2] # "Failed"}
                   /\ UNCHANGED <<exitCode, pi, settled, toDelete>>
    /\ UNCHANGED <<opts, platforms, discoveredOf, discoveryDone, mstate, linkerCalls,
                   tree, srcTime, clock, frameworks, restoreCalls, treeAtStart,
                   secondRun, cargoVars, bundleVars>>

\* The Pruner removes one orphaned entry of the platform's output tree.
PruneDelete ==
    /\ pc = "pruning"
    /\ \E e \in toDelete :
        /\ tree' = [tree EXCEPT ![Platform] =
                      [x \in DOMAIN tree[Platform] \ {e} |-> tree[Platform][x]]]
        /\ toDelete' = toDelete \ {e}
    /\ UNCHANGED <<pc, opts, platforms, pi, discoveredOf, discoveryDone, mstate,
                   linkerCalls, modulesOf, logged, exitCode, srcTime, clock, frameworks,
                   restoreCalls, treeAtStart, settled, secondRun, cargoVars, bundleVars>>

\* pruneLinkedModules resolved: on to the next platform, or out of the loop.
PruneDone ==
    /\ pc = "pruning"
    /\ toDelete = {}
    /\ pc' = NextPc
    /\ pi' = NextPi
    /\ settled' = Finished(Platform, modulesOf[Platform])
    /\ UNCHANGED <<opts, platforms, discoveredOf, discoveryDone, mstate, linkerCalls,
                   modulesOf, logged, exitCode, toDelete, tree, srcTime, clock,
                   frameworks, restoreCalls, treeAtStart, secondRun, cargoVars, bundleVars>>

\* if (apple): restore the framework links of every macOS slice that has a bundle.
Restore ==
    /\ pc = "restore"
    /\ \E onDisk \in SUBSET MacSlices :
        /\ frameworks' = onDisk
        /\ restoreCalls' = {s \in MacSlices : existsSync(s, onDisk)}
    /\ pc' = "done"
    /\ UNCHANGED <<opts, platforms, pi, discoveredOf, discoveryDone, mstate,
                   linkerCalls, modulesOf, logged, exitCode, toDelete, tree, srcTime,
                   clock, treeAtStart, settled, secondRun, cargoVars, bundleVars>>

\* The process exits; only the filesystem outlives it.
Exit ==
    /\ pc \in {"done", "rejected"}
    /\ pc' = "idle"
    /\ opts' = NoOpts
    /\ platforms' = <<>>
    /\ exitCode' = 0
    /\ RunReset
    /\ UNCHANGED <<tree, srcTime, clock, settled, cargoVars, bundleVars>>

\* Between two runs a source artifact is rebuilt: its mtime advances.
TouchSource ==
    /\ pc = "idle"
    /\ clock < MaxClock
    /\ clock' = clock + 1
    /\ \E m \in Modules :
        /\ srcTime' = [srcTime EXCEPT ![m] = clock + 1]
        /\ settled' = [p \in PlatformNames |-> settled[p] \ {m}]
    /\ UNCHANGED <<pc, opts, platforms, pi, discoveredOf, discoveryDone, mstate,
                   linkerCalls, modulesOf, logged, exitCode, toDelete, tree, frameworks,
                   restoreCalls, treeAtStart, secondRun, cargoVars, bundleVars>>

LinkStep ==
    \E p \in PlatformNames, m \in Modules :
        \/ LinkCheck(p, m)
        \/ LinkSucceed(p, m)
        \/ LinkFail(p, m)

Next ==
    \/ LinkNoPlatform
    \/ LinkBegin
    \/ Discover
    \/ DiscoverFails
    \/ LinkStep
    \/ Report
    \/ PruneDelete
    \/ PruneDone
    \/ Restore
    \/ Exit
    \/ TouchSource

Spec == Init /\ [][Next]_vars

(* ---------------------------------------------------------- link: claims *)
ModuleFailed(p, m) == m \in discoveredOf[p] /\ mstate[p][m] = "Failed"

\* The results of `modules` that are about module m.
ResultsAbout(modules, m) == {i \in 1..Len(modules) : modules[i].originalPath = m}

\* C1: a module's failure never aborts the batch. When the action has run to
\* its end, every discovered module of every requested platform has exactly one
\* link result and one report line (a failure line exactly for the failed
\* ones), and the exit code is non-zero exactly when some module failed or no
\* platform flag was given; the action rejects only when discovery fails,
\* never because a module failed.
C1_FailuresAggregated ==
    /\ pc = "done" =>
        /\ \A p \in Range(platforms) : \A m \in discoveredOf[p] :
            /\ Cardinality(ResultsAbout(modulesOf[p], m)) = 1
            /\ mstate[p][m] \in Terminal
            /\ Cardinality({l \in logged : l[1] = p /\ l[3] = m}) = 1
            /\ <<p, "Failed", m>> \in logged <=> mstate[p][m] = "Failed"
        /\ \A p \in Range(platforms) :
            Len(modulesOf[p]) = Cardinality(discoveredOf[p])
        /\ exitCode # 0 <=>
            \/ platforms = <<>>
            \/ \E p \in Range(platforms), m \in Modules : ModuleFailed(p, m)
    /\ pc = "rejected" => ~discoveryDone[Platform]

\* C1 witness: a finished run in which one module failed and another was linked.
C1_Witness ==
    /\ pc = "done"
    /\ exitCode = 1
    /\ \E p \in Range(platforms) : \E m1, m2 \in discoveredOf[p] :
        /\ mstate[p][m1] = "Failed"
        /\ mstate[p][m2] = "Linked"
        /\ <<p, "Failed", m1>> \in logged
        /\ <<p, "Linked", m2>> \in logged

\* C2: with neither --android nor --apple the exit code is 1 and nothing is
\* discovered, linked, pruned or restored: the output trees are as they were.
C2_NoPlatformDoesNothing ==
    (pc # "idle" /\ ~opts.android /\ ~opts.apple) =>
        /\ pc = "done"
        /\ exitCode = 1
        /\ tree = treeAtStart
        /\ \A p \in PlatformNames :
            /\ ~discoveryDone[p]
            /\ modulesOf[p] = <<>>
            /\ \A m \in Modules : linkerCalls[p][m] = 0 /\ mstate[p][m] = "None"
        /\ toDelete = {}
        /\ restoreCalls = {}

\* C2 witness: a run without platform flags over output trees that hold entries.
C2_Witness ==
    /\ pc = "done"
    /\ ~opts.android /\ ~opts.apple
    /\ exitCode = 1
    /\ DOMAIN tree["android"] # {}
    /\ DOMAIN tree["apple"] # {}

\* C3: while the Pruner is at work on a platform's output tree, no module of
\* that platform is still waiting for or under materialization.
C3_PruneAfterLinking ==
    pc = "pruning" =>
        \A m \in Modules : mstate[Platform][m] \notin {"Discovered", "Materializing"}

\* C3 witness: the Pruner has entries to delete after a module was linked.
C3_Witness ==
    /\ pc = "pruning"
    /\ toDelete # {}
    /\ \E m \in Modules : mstate[Platform][m] = "Linked"

\* C4: after a run with pruning enabled, a platform whose modules all succeeded
\* holds exactly the discovered canonical names (none when discovery found
\* none), and the tree of a platform that was not requested is untouched.
C4_TreeEqualsDiscovery ==
    pc = "done" =>
        /\ \A p \in Range(platforms) :
            (opts.prune /\ Len(Failures(modulesOf[p])) = 0) =>
                DOMAIN tree[p] = discoveredOf[p]
        /\ \A p \in PlatformNames \ Range(platforms) : tree[p] = treeAtStart[p]

\* C4 witness: discovery found nothing, the platform's earlier entries are all
\* removed, and the other platform's entries are still there.
C4_Witness ==
    /\ pc = "done"
    /\ opts.prune
    /\ \E p \in Range(platforms) : \E q \in PlatformNames \ Range(platforms) :
        /\ discoveredOf[p] = {}
        /\ DOMAIN treeAtStart[p] = Modules
        /\ DOMAIN tree[p] = {}
        /\ DOMAIN tree[q] = Modules

\* The run has reached platform p's linking.
Reached(p) == pc \in {"linking", "pruning", "restore", "done"} /\ discoveryDone[p]

\* C5: without --force, a run that finds every discovered module already
\* linked by the previous run and its source unchanged hands no module to the
\* linker, leaves their outputs as they were (the whole tree, when it holds no
\* orphan), and reports every result as skipped; with --force no module is ever
\* skipped: each is handed to the linker once.
C5_IncrementalNoOp ==
    \A p \in PlatformNames :
        /\ (Reached(p) /\ ~opts.force /\ secondRun[p]) =>
            /\ \A m \in discoveredOf[p] :
                /\ linkerCalls[p][m] = 0
                /\ mstate[p][m] \in {"Discovered", "UpToDate"}
                /\ m \in DOMAIN tree[p] /\ m \in DOMAIN treeAtStart[p]
                /\ tree[p][m] = treeAtStart[p][m]
            /\ \A i \in 1..Len(modulesOf[p]) :
                IsLinked(modulesOf[p][i]) /\ modulesOf[p][i].skipped
            /\ DOMAIN treeAtStart[p] \subseteq discoveredOf[p] => tree[p] = treeAtStart[p]
        /\ (Reached(p) /\ opts.force) =>
            /\ \A m \in discoveredOf[p] :
                /\ mstate[p][m] # "UpToDate"
                /\ mstate[p][m] # "Discovered" => linkerCalls[p][m] = 1
            /\ \A i \in 1..Len(modulesOf[p]) :
                IsLinked(modulesOf[p][i]) => ~modulesOf[p][i].skipped

\* C5 witness: a finished second run over unchanged sources, every module skipped.
C5_Witness ==
    /\ pc = "done"
    /\ ~opts.force
    /\ \E p \in Range(platforms) :
        /\ secondRun[p]
        /\ discoveredOf[p] = Modules
        /\ Len(modulesOf[p]) = NumModules
        /\ \A i \in 1..Len(modulesOf[p]) : modulesOf[p][i].skipped
        /\ tree[p] = treeAtStart[p]

(* ------------------------------------------------------- cargo.ts: data *)
\* The Android targets (the keys of ANDROID_ARCH_PR_TARGET), as the segments
\* target.split("-") yields.
AndroidTargets ==
    { <<"aarch64", "linux", "android">>,
      <<"armv7", "linux", "androideabi">>,
      <<"i686", "linux", "android">>,
      <<"x86_64", "linux", "android">> }

\* The Apple targets (the keys of APPLE_XCFRAMEWORK_SLICES_PER_TARGET).
AppleTargets ==
    { <<"aarch64", "apple", "darwin">>,
      <<"x86_64", "apple", "darwin">>,
      <<"aarch64", "apple", "ios">>,
      <<"aarch64", "apple", "ios", "sim">>,
      <<"x86_64", "apple", "ios">>,
      <<"aarch64", "apple", "visionos">>,
      <<"aarch64", "apple", "visionos", "sim">>,
      <<"aarch64", "apple", "tvos">>,
      <<"aarch64", "apple", "tvos", "sim">>,
      <<"x86_64", "apple", "tvos">> }

RECURSIVE Join(_, _)
\* Array.prototype.join
Join(parts, sep) ==
    IF Len(parts) = 0 THEN ""
    ELSE IF Len(parts) = 1 THEN parts[1]
    ELSE parts[1] \o sep \o Join(Tail(parts), sep)

\* The target triple as the string the program holds.
TargetName(target) == Join(target, "-")

\* path.join
PathJoin(parts) == Join(parts, "/")

isAndroidTarget(target) == target \in AndroidTargets
isAppleTarget(target) == target \in AppleTargets

\* Third-tier targets of the Rust toolchain: the visionOS family.
isThirdTierTarget(target) == Len(target) >= 3 /\ target[3] = "visionos"

APPLE_XCFRAMEWORK_SLICES_PER_TARGET(target) ==
    LET name == TargetName(target)
    IN  CASE name = "aarch64-apple-darwin" -> <<"macos-arm64_x86_64", "macos-arm64">>
          [] name = "x86_64-apple-darwin" -> <<"macos-arm64_x86_64", "macos-x86_64">>
          [] name = "aarch64-apple-ios" -> <<"ios-arm64">>
          [] name = "aarch64-apple-ios-sim" ->
                <<"ios-arm64_x86_64-simulator", "ios-arm64-simulator">>
          [] name = "x86_64-apple-ios" ->
                <<"ios-arm64_x86_64-simulator", "ios-x86_64-simulator">>
          [] name = "aarch64-apple-visionos" -> <<"xros-arm64">>
          [] name = "aarch64-apple-visionos-sim" ->
                <<"xros-arm64_x86_64-simulator", "xros-arm64-simulator">>
          [] name = "aarch64-apple-tvos" -> <<"tvos-arm64">>
          [] name = "aarch64-apple-tvos-sim" ->
                <<"tvos-arm64_x86_64-simulator", "tvos-arm64-simulator">>
          [] name = "x86_64-apple-tvos" ->
                <<"tvos-arm64_x86_64-simulator", "tvos-x86_64-simulator">>

ANDROID_ARCH_PR_TARGET(target) ==
    LET name == TargetName(target)
    IN  CASE name = "aarch64-linux-android" -> "arm64-v8a"
          [] name = "armv7-linux-androideabi" -> "armeabi-v7a"
          [] name = "i686-linux-android" -> "x86"
          [] name = "x86_64-linux-android" -> "x86_64"

\* weak-node-api's prebuild roots.
applePrebuildPath == "/weak-node-api/build/Release/weak-node-api.xcframework"
androidPrebuildPath == "/weak-node-api/build/Release/weak-node-api.android.node"

\* Every slice name the catalog knows.
AllSlices ==
    UNION {Range(APPLE_XCFRAMEWORK_SLICES_PER_TARGET(t)) : t \in AppleTargets}

AllAbis == {ANDROID_ARCH_PR_TARGET(t) : t \in AndroidTargets}

Threw(error) == [status |-> "threw", error |-> error]
Returned(value) == [status |-> "returned", value |-> value]

(* -------------------------------------------------- cargo.ts: functions *)
getTargetAndroidArch(target) ==
    LET first == target[1]
    IN  IF first = "armv7" THEN "armv7a" ELSE first

getTargetAndroidPlatform(target) ==
    IF getTargetAndroidArch(target) = "armv7a" THEN "androideabi24" ELSE "android24"

FirstSliceMutant(candidates, onDisk) ==
    LET found == {i \in 1..Len(candidates) : candidates[i] \in onDisk}
    IN  IF found = {} THEN ""
        ELSE candidates[CHOOSE i \in found : \A j \in found : i >= j]
\* Array.prototype.find over the candidate slices: the first that exists, or
\* undefined (here the empty string, which is as falsy).
FirstSlice(candidates, onDisk) ==
    LET found == {i \in 1..Len(candidates) : candidates[i] \in onDisk}
    IN  IF found = {} THEN ""
        ELSE candidates[CHOOSE i \in found : \A j \in found : i <= j]

\* in: the target and the slice directories on disk
getWeakNodeApiFrameworkPath(target, slices) ==
    LET result == FirstSlice(APPLE_XCFRAMEWORK_SLICES_PER_TARGET(target), slices)
    IN  IF result = "" THEN Threw("No matching slice found")
        ELSE IF result \notin slices THEN Threw("Expected path to exist")
        ELSE Returned(PathJoin(<<applePrebuildPath, result>>))

\* in: the target and the ABI directories on disk
getWeakNodeApiAndroidLibraryPath(target, abis) ==
    IF ANDROID_ARCH_PR_TARGET(target) \in abis
    THEN Returned(PathJoin(<<androidPrebuildPath, ANDROID_ARCH_PR_TARGET(target)>>))
    ELSE Threw("Expected path to exist")

\* in: the toolchain directories under <ndk>/toolchains/llvm/prebuilt
getLLVMToolchainBinPath(ndkPath, candidates) ==
    LET prebuiltPath == PathJoin(<<ndkPath, "toolchains", "llvm", "prebuilt">>)
    IN  IF Len(candidates) = 0 THEN Threw("Expected LLVM toolchain to be installed")
        ELSE IF Len(candidates) > 1
            THEN Threw("Expected a single LLVM toolchain to be installed")
        ELSE Returned(PathJoin(<<prebuiltPath, candidates[1], "bin">>))

\* String.fromCharCode(0x1f)
UnitSeparator == "<0x1f>"

LinkerTargetsMutant(target) == {target}
\* The architectures a linker variable is emitted for: all four, whatever the target.
LinkerTargets(target) == AndroidTargets

\* CARGO_TARGET_<TRIPLE>_LINKER
LinkerVariable(t) ==
    CASE TargetName(t) = "aarch64-linux-android" -> "CARGO_TARGET_AARCH64_LINUX_ANDROID_LINKER"
      [] TargetName(t) = "armv7-linux-androideabi" -> "CARGO_TARGET_ARMV7_LINUX_ANDROIDEABI_LINKER"
      [] TargetName(t) = "x86_64-linux-android" -> "CARGO_TARGET_X86_64_LINUX_ANDROID_LINKER"
      [] TargetName(t) = "i686-linux-android" -> "CARGO_TARGET_I686_LINUX_ANDROID_LINKER"

\* The linker binary of one architecture at the configured API level.
LinkerBinary(t, androidApiLevel, cmdMaybe) ==
    CASE TargetName(t) = "aarch64-linux-android" ->
            "aarch64-linux-android" \o ToString(androidApiLevel) \o "-clang" \o cmdMaybe
      [] TargetName(t) = "armv7-linux-androideabi" ->
            "armv7a-linux-androideabi" \o ToString(androidApiLevel) \o "-clang" \o cmdMaybe
      [] TargetName(t) = "x86_64-linux-android" ->
            "x86_64-linux-android" \o ToString(androidApiLevel) \o "-clang" \o cmdMaybe
      [] TargetName(t) = "i686-linux-android" ->
            "i686-linux-android" \o ToString(androidApiLevel) \o "-clang" \o cmdMaybe

\* `${targetArch}-linux-${targetPlatform}-clang${cmdMaybe}`
CompilerBinary(target, suffix, cmdMaybe) ==
    getTargetAndroidArch(target) \o "-linux-" \o getTargetAndroidPlatform(target)
        \o "-clang" \o suffix \o cmdMaybe

\* The variables of the Android environment and the toolchain binary each names.
AndroidBinaries(target, androidApiLevel, win32) ==
    LET cmdMaybe == IF win32 THEN ".cmd" ELSE ""
        exeMaybe == IF win32 THEN ".exe" ELSE ""
        linkers == [v \in {LinkerVariable(t) : t \in LinkerTargets(target)} |->
                      LinkerBinary(CHOOSE t \in AndroidTargets : LinkerVariable(t) = v,
                                   androidApiLevel, cmdMaybe)]
        tools == [v \in {"TARGET_CC", "TARGET_CXX", "TARGET_AR", "TARGET_RANLIB"} |->
                    CASE v = "TARGET_CC" -> CompilerBinary(target, "", cmdMaybe)
                      [] v = "TARGET_CXX" -> CompilerBinary(target, "++", cmdMaybe)
                      [] v = "TARGET_AR" -> "llvm-ar" \o exeMaybe
                      [] v = "TARGET_RANLIB" -> "llvm-ranlib" \o exeMaybe]
    IN  linkers @@ tools

\* in: the options, and what of process.env, process.platform and the disk it reads
getTargetEnvironmentVariables(in) ==
    IF isAndroidTarget(in.target) THEN
        IF in.ndkVersion = "" THEN Threw("Expected ndkVersion to be set for Android targets")
        ELSE IF in.androidHome # "present" THEN Threw("Missing ANDROID_HOME environment variable")
        ELSE LET ndkPath == PathJoin(<<"/sdk", "ndk", in.ndkVersion>>)
             IN  IF ~in.ndkExists THEN Threw("Expected NDK")
                 ELSE LET toolchain == getLLVMToolchainBinPath(ndkPath, in.toolchains)
                          weak == getWeakNodeApiAndroidLibraryPath(in.target, in.abis)
                          binaries == AndroidBinaries(in.target, in.androidApiLevel, in.win32)
                      IN  IF toolchain.status = "threw" THEN toolchain
                          ELSE IF weak.status = "threw" THEN weak
                          ELSE IF \E v \in DOMAIN binaries : binaries[v] \notin in.binFiles
                              THEN Threw("Expected path to exist")
                          ELSE Returned(
                              [v \in DOMAIN binaries |-> PathJoin(<<toolchain.value, binaries[v]>>)]
                              @@ [v \in {"CARGO_ENCODED_RUSTFLAGS", "ANDROID_NDK", "PATH"} |->
                                    CASE v = "CARGO_ENCODED_RUSTFLAGS" ->
                                            Join(<<"-L", weak.value, "-l", "weak-node-api">>,
                                                 UnitSeparator)
                                      [] v = "ANDROID_NDK" -> ndkPath
                                      [] v = "PATH" -> toolchain.value \o ":" \o in.path])
    ELSE IF isAppleTarget(in.target) THEN
        LET framework == getWeakNodeApiFrameworkPath(in.target, in.slices)
        IN  IF framework.status = "threw" THEN framework
            ELSE Returned(
                [v \in {"CARGO_ENCODED_RUSTFLAGS"} |->
                    Join(<<"-L", "framework=" \o framework.value, "-l",
                           "framework=weak-node-api">>, UnitSeparator)])
    ELSE Threw("Unexpected target")

(* ------------------------------------------- cargo.ts: the resolver runs *)
\* The API levels a build is configured with.
ApiLevels == {21, 24}

\* The clang wrappers and binutils an NDK's LLVM toolchain ships in bin/.
NdkBinaries(win32) ==
    LET cmd == IF win32 THEN ".cmd" ELSE ""
        exe == IF win32 THEN ".exe" ELSE ""
        triples == { <<"aarch64", "android">>, <<"armv7a", "androideabi">>,
                     <<"i686", "android">>, <<"x86_64", "android">> }
    IN  { tr[1] \o "-linux-" \o tr[2] \o ToString(l) \o "-clang" \o pp \o cmd :
            tr \in triples, l \in ApiLevels, pp \in {"", "++"} }
        \cup {"llvm-ar" \o exe, "llvm-ranlib" \o exe}

\* A toolchain's bin/ as found on disk: complete, or with one file missing.
BinDirectories(win32) ==
    {NdkBinaries(win32)} \cup {NdkBinaries(win32) \ {f} : f \in NdkBinaries(win32)}

\* Calls of getTargetEnvironmentVariables for an Android target.
AndroidEnvInputs ==
    UNION { { [fn |-> "getTargetEnvironmentVariables", target |-> t, ndkVersion |-> v,
               androidApiLevel |-> l, androidHome |-> h, ndkExists |-> n,
               toolchains |-> c, abis |-> a, binFiles |-> b, win32 |-> w,
               path |-> "/usr/bin"] :
              v \in {"", "27.1.12297006"}, l \in ApiLevels, h \in {"unset", "present"},
              n \in BOOLEAN, a \in {AllAbis, AllAbis \ {ANDROID_ARCH_PR_TARGET(t)}},
              c \in {<<>>, <<"linux-x86_64">>, <<"darwin-x86_64", "linux-x86_64">>},
              b \in BinDirectories(w) } :
            t \in AndroidTargets, w \in BOOLEAN }

\* Calls of getTargetEnvironmentVariables for an Apple target.
AppleEnvInputs ==
    UNION { { [fn |-> "getTargetEnvironmentVariables", target |-> t, slices |-> sl] :
              sl \in SUBSET Range(APPLE_XCFRAMEWORK_SLICES_PER_TARGET(t)) } :
            t \in AppleTargets }

\* Calls of getWeakNodeApiFrameworkPath.
SliceInputs ==
    [fn : {"getWeakNodeApiFrameworkPath"}, target : AppleTargets, slices : SUBSET AllSlices]

Pending == [status |-> "pending"]

ResolveInit ==
    /\ LinkInit
    /\ BundlesIdle
    /\ input \in AndroidEnvInputs \cup AppleEnvInputs \cup SliceInputs
    /\ call = input.fn
    /\ output = Pending

CallGetTargetEnvironmentVariables ==
    /\ call = "getTargetEnvironmentVariables"
    /\ output = Pending
    /\ output' = getTargetEnvironmentVariables(input)
    /\ UNCHANGED <<call, input, linkVars, bundleVars>>

CallGetWeakNodeApiFrameworkPath ==
    /\ call = "getWeakNodeApiFrameworkPath"
    /\ output = Pending
    /\ output' = getWeakNodeApiFrameworkPath(input.target, input.slices)
    /\ UNCHANGED <<call, input, linkVars, bundleVars>>

ResolveNext ==
    \/ CallGetTargetEnvironmentVariables
    \/ CallGetWeakNodeApiFrameworkPath

SpecResolve == ResolveInit /\ [][ResolveNext]_vars

(* ------------------------------------------------------ resolver: claims *)
EnvReturnedForAndroid ==
    /\ call = "getTargetEnvironmentVariables"
    /\ isAndroidTarget(input.target)
    /\ output.status = "returned"

\* C6: whenever getTargetEnvironmentVariables returns for an Android target,
\* the environment holds the linker variable of all four architectures.
C6_AllFourLinkers ==
    EnvReturnedForAndroid =>
        { "CARGO_TARGET_AARCH64_LINUX_ANDROID_LINKER",
          "CARGO_TARGET_ARMV7_LINUX_ANDROIDEABI_LINKER",
          "CARGO_TARGET_X86_64_LINUX_ANDROID_LINKER",
          "CARGO_TARGET_I686_LINUX_ANDROID_LINKER" } \subseteq DOMAIN output.value

\* C6 witness: the environment returned for the 32-bit x86 target holds the
\* 64-bit ARM linker.
C6_Witness ==
    /\ EnvReturnedForAndroid
    /\ TargetName(input.target) = "i686-linux-android"
    /\ "CARGO_TARGET_AARCH64_LINUX_ANDROID_LINKER" \in DOMAIN output.value

UniversalSlices ==
    { "macos-arm64_x86_64", "ios-arm64_x86_64-simulator",
      "xros-arm64_x86_64-simulator", "tvos-arm64_x86_64-simulator" }

\* C7: getWeakNodeApiFrameworkPath returns the first candidate slice of the
\* target that exists on disk, hence the universal slice whenever the target
\* has one and it exists, and throws when no candidate exists.
C7_FirstExistingSlice ==
    (call = "getWeakNodeApiFrameworkPath" /\ output # Pending) =>
        LET candidates == APPLE_XCFRAMEWORK_SLICES_PER_TARGET(input.target)
            existing == {i \in 1..Len(candidates) : candidates[i] \in input.slices}
        IN  /\ existing = {} => output.status = "threw"
            /\ existing # {} =>
                /\ output.status = "returned"
                /\ \E i \in existing :
                    /\ \A j \in existing : i <= j
                    /\ output.value = applePrebuildPath \o "/" \o candidates[i]
            /\ \A u \in UniversalSlices \cap Range(candidates) \cap input.slices :
                /\ output.status = "returned"
                /\ output.value = applePrebuildPath \o "/" \o u

\* C7 witness: both the universal and the arm64 macOS slice exist, and the
\* universal one is returned.
C7_Witness ==
    /\ call = "getWeakNodeApiFrameworkPath"
    /\ TargetName(input.target) = "aarch64-apple-darwin"
    /\ {"macos-arm64_x86_64", "macos-arm64"} \subseteq input.slices
    /\ output.status = "returned"
    /\ output.value = applePrebuildPath \o "/macos-arm64_x86_64"

\* The compiler prefix and platform the claim gives each Android target.
ClaimedPrefix(target) == IF target[1] = "armv7" THEN "armv7a" ELSE target[1]
ClaimedPlatform(target) == IF target[1] = "armv7" THEN "androideabi" ELSE "android"

\* The binary the claim names: <prefix>-linux-<platform><level>-clang<suffix>.
ClaimedBinary(target, level, suffix, win32) ==
    ClaimedPrefix(target) \o "-linux-" \o ClaimedPlatform(target) \o ToString(level)
        \o "-clang" \o suffix \o (IF win32 THEN ".cmd" ELSE "")

\* C9: for every Android target and API level, TARGET_CC, TARGET_CXX and the
\* four linker variables name the binary of the architecture's prefix and
\* platform at the configured API level.
C9_BinariesFollowApiLevel ==
    EnvReturnedForAndroid =>
        LET bin == getLLVMToolchainBinPath(
                       PathJoin(<<"/sdk", "ndk", input.ndkVersion>>), input.toolchains).value
            level == input.androidApiLevel
        IN  /\ output.value["TARGET_CC"] =
                    bin \o "/" \o ClaimedBinary(input.target, level, "", input.win32)
            /\ output.value["TARGET_CXX"] =
                    bin \o "/" \o ClaimedBinary(input.target, level, "++", input.win32)
            /\ \A t \in AndroidTargets :
                output.value[LinkerVariable(t)] =
                    bin \o "/" \o ClaimedBinary(t, level, "", input.win32)

(* ---------------------------------------------------- cargo.ts: build() *)
RECURSIVE EndsWith(_, _)
\* String.prototype.endsWith, over strings held as sequences of characters.
EndsWith(str, suffix) ==
    IF Len(suffix) = 0 THEN TRUE
    ELSE IF Len(str) < Len(suffix) THEN FALSE
    ELSE /\ str[Len(str)] = suffix[Len(suffix)]
         /\ EndsWith(SubSeq(str, 1, Len(str) - 1), SubSeq(suffix, 1, Len(suffix) - 1))

\* String.prototype.toLowerCase, on the configuration names a caller may spell.
ToLowerCase(str) ==
    CASE str = "Release" -> "release"
      [] str = "RELEASE" -> "release"
      [] str = "Debug" -> "debug"
      [] str = "DEBUG" -> "debug"
      [] OTHER -> str

BuildArgsMutant(target, configuration) ==
    <<"build", "--target", TargetName(target)>>
        \o (IF ToLowerCase(configuration) = "release" THEN <<"--release">> ELSE <<>>)
        \o (IF isThirdTierTarget(target)
            THEN <<"+nightly", "-Z", "build-std=std,panic_abort">> ELSE <<>>)
\* The argument list build() hands to cargo.
BuildArgs(target, configuration) ==
    LET args0 == <<"build", "--target", TargetName(target)>>
        args1 == IF ToLowerCase(configuration) = "release"
                 THEN Append(args0, "--release") ELSE args0
    IN  IF isThirdTierTarget(target)
        THEN (<<"+nightly">> \o args1) \o <<"-Z", "build-std=std,panic_abort">>
        ELSE args1

\* (file) => file.endsWith(".so") || file.endsWith(".dylib")
IsDynamicLibraryFile(file) ==
    \/ EndsWith(file, <<".", "s", "o">>)
    \/ EndsWith(file, <<".", "d", "y", "l", "i", "b">>)

SingleArtifactMutant(dynamicLibraryFile) == Len(dynamicLibraryFile) >= 1
\* assert(dynamicLibraryFile.length === 1)
SingleArtifact(dynamicLibraryFile) == Len(dynamicLibraryFile) = 1

\* path.join(process.cwd(), "target", target, configuration)
TargetOutputPath(target, configuration) ==
    PathJoin(<<"/crate", "target", TargetName(target), configuration>>)

\* What build() does once cargo exited with 0.
LocateArtifact(in) ==
    IF ~in.dirExists THEN Threw("Expected path to exist")
    ELSE LET dynamicLibraryFile == SelectSeq(in.files, IsDynamicLibraryFile)
         IN  IF ~SingleArtifact(dynamicLibraryFile)
             THEN Threw("Expected a single shared object file")
             ELSE Returned([dir |-> TargetOutputPath(in.target, in.configuration),
                            file |-> dynamicLibraryFile[1]])

\* The entries a target's output directory may hold, in readdir's order.
OutputEntries ==
    << <<"d", "e", "p", "s">>,
       <<"l", "i", "b", "a", ".", "d">>,
       <<"l", "i", "b", "a", ".", "d", "y", "l", "i", "b">>,
       <<"l", "i", "b", "a", ".", "s", "o">>,
       <<"l", "i", "b", "b", ".", "s", "o">>,
       <<"s", "o">> >>

RECURSIVE Listing(_, _)
\* The entries at the chosen places, in order.
Listing(entries, keep) ==
    IF Len(entries) = 0 THEN <<>>
    ELSE (IF Len(entries) \in keep THEN Listing(SubSeq(entries, 1, Len(entries) - 1), keep)
                                         \o <<entries[Len(entries)]>>
          ELSE Listing(SubSeq(entries, 1, Len(entries) - 1), keep))

Configurations == {"debug", "release"}

\* Calls of build(): the options, the environment the resolver reads (its
\* prerequisites all on disk, or none), and the target's output directory as
\* cargo leaves it.
BuildInputs ==
    UNION { { [fn |-> "build", target |-> t, configuration |-> c,
               ndkVersion |-> "27.1.12297006", androidApiLevel |-> 24,
               androidHome |-> IF onDisk THEN "present" ELSE "unset",
               ndkExists |-> onDisk, toolchains |-> <<"linux-x86_64">>,
               abis |-> AllAbis, binFiles |-> NdkBinaries(FALSE), win32 |-> FALSE,
               path |-> "/usr/bin",
               slices |-> IF onDisk /\ isAppleTarget(t)
                          THEN Range(APPLE_XCFRAMEWORK_SLICES_PER_TARGET(t)) ELSE {},
               dirExists |-> d,
               files |-> IF d THEN Listing(OutputEntries, keep) ELSE <<>>] :
              c \in Configurations, onDisk \in BOOLEAN, d \in BOOLEAN,
              keep \in SUBSET (1..Len(OutputEntries)) } :
            t \in AndroidTargets \cup AppleTargets }

BuildInit ==
    /\ LinkInit
    /\ BundlesIdle
    /\ input \in BuildInputs
    /\ call = "build"
    /\ output = Pending

\* build() composes the arguments and the environment and spawns cargo.
BuildSpawn ==
    /\ call = "build"
    /\ output = Pending
    /\ LET env == getTargetEnvironmentVariables(input)
       IN  output' = IF env.status = "threw" THEN env
                     ELSE [status |-> "spawning",
                           args |-> BuildArgs(input.target, input.configuration),
                           env |-> env.value]
    /\ UNCHANGED <<call, input, linkVars, bundleVars>>

\* cargo exits with 0: build() looks for the artifact.
CargoSucceeds ==
    /\ call = "build"
    /\ output.status = "spawning"
    /\ output' = LocateArtifact(input) @@ [args |-> output.args, exit |-> 0]
    /\ UNCHANGED <<call, input, linkVars, bundleVars>>

\* cargo exits with an error: spawn rejects with a SpawnFailure.
CargoFails ==
    /\ call = "build"
    /\ output.status = "spawning"
    /\ output' = Threw("SpawnFailure") @@ [args |-> output.args, exit |-> 101]
    /\ UNCHANGED <<call, input, linkVars, bundleVars>>

BuildNext ==
    \/ BuildSpawn
    \/ CargoSucceeds
    \/ CargoFails

SpecBuild == BuildInit /\ [][BuildNext]_vars

(* --------------------------------------------------------- build: claims *)
\* The places of the listing that hold a .so or .dylib file.
DynamicLibraryPlaces ==
    {i \in 1..Len(input.files) :
        \/ EndsWith(input.files[i], <<".", "s", "o">>)
        \/ EndsWith(input.files[i], <<".", "d", "y", "l", "i", "b">>)}

BuildEnded == call = "build" /\ output.status \in {"returned", "threw"}

\* C8: build() returns a path only when cargo exited with 0 and the target's
\* output directory holds exactly one .so/.dylib file, which is the file
\* returned; with none or several it throws.
C8_ExactlyOneArtifact ==
    BuildEnded =>
        /\ output.status = "returned" =>
            /\ output.exit = 0
            /\ input.dirExists
            /\ Cardinality(DynamicLibraryPlaces) = 1
            /\ \A i \in DynamicLibraryPlaces : output.value.file = input.files[i]
            /\ output.value.dir =
                  "/crate/target/" \o TargetName(input.target) \o "/" \o input.configuration
        /\ Cardinality(DynamicLibraryPlaces) # 1 => output.status = "threw"

\* C8 witness: a directory with one .so among other entries, and its path returned.
C8_Witness ==
    /\ BuildEnded
    /\ output.status = "returned"
    /\ Len(input.files) >= 3
    /\ output.value.file = <<"l", "i", "b", "a", ".", "s", "o">>

Spawned == call = "build" /\ "args" \in DOMAIN output

ReleaseArgs == IF input.configuration = "release" THEN <<"--release">> ELSE <<>>

\* C10 as stated: [build, --target, <triple>, (--release)?, (+nightly, -Z,
\* build-std=std,panic_abort)?], the nightly selector after the other arguments.
C10_ArgsAsStated ==
    Spawned =>
        output.args =
            <<"build", "--target", TargetName(input.target)>> \o ReleaseArgs
            \o (IF isThirdTierTarget(input.target)
                THEN <<"+nightly", "-Z", "build-std=std,panic_abort">> ELSE <<>>)

\* C10 as amended: [(+nightly)?, build, --target, <triple>, (--release)?,
\* (-Z, build-std=std,panic_abort)?]: --release exactly for the release
\* configuration; for a third-tier target, and only then, +nightly is the first
\* argument and -Z, build-std=std,panic_abort are the last two.
C10_ArgsNightlyFirst ==
    Spawned =>
        output.args =
            (IF isThirdTierTarget(input.target) THEN <<"+nightly">> ELSE <<>>)
            \o <<"build", "--target", TargetName(input.target)>> \o ReleaseArgs
            \o (IF isThirdTierTarget(input.target)
                THEN <<"-Z", "build-std=std,panic_abort">> ELSE <<>>)

\* C10 witness: a release build of a third-tier target.
C10_Witness ==
    /\ Spawned
    /\ output.args = <<"+nightly", "build", "--target", "aarch64-apple-visionos",
                       "--release", "-Z", "build-std=std,panic_abort">>


(* ------------------------------------- link: restoring the framework links *)
\* The links of a versioned framework bundle that a copy may lose.
FrameworkLinks == {"Versions/Current", "Resources", "weak-node-api"}

\* What one macOS slice of the prebuild may hold.
BundleStates ==
    {NoBundle, [kind |-> "noFramework", links |-> {}]}
    \cup [kind : {"framework"}, links : SUBSET FrameworkLinks]

\* The slices whose weak-node-api.framework is on disk.
OnDisk == {s \in MacSlices : bundles[s].kind = "framework"}

\* restoreFrameworkLinks(frameworkPath): rebuilds the links from the bundle's
\* structure; there is no structure to read where there is no bundle.
restoreFrameworkLinks(bundle) ==
    IF bundle.kind = "framework"
    THEN Returned([kind |-> "framework", links |-> FrameworkLinks])
    ELSE Threw("ENOENT")

LinkRuns == {o \in Options : ~NoPlatform(PlatformsOf(o))}

\* The platforms whose turn of the loop is over, or is at its report.
Visited(o) == Range(PlatformsOf(o))

\* The lines printed for the platforms before the last one, none with a module.
EarlierLines(o) ==
    {<<PlatformsOf(o)[i], "NoModules", 0>> : i \in 1..(Len(PlatformsOf(o)) - 1)}

\* The action at the last platform of its loop, discovery having found no
\* module on any platform; the prebuild holds any bundles.
RestoreInit ==
    /\ CargoIdle
    /\ pc = "linking"
    /\ opts \in LinkRuns
    /\ platforms = PlatformsOf(opts)
    /\ pi = Len(platforms)
    /\ discoveredOf = [p \in PlatformNames |-> {}]
    /\ discoveryDone = [p \in PlatformNames |-> p \in Visited(opts)]
    /\ mstate = [p \in PlatformNames |-> [m \in Modules |-> "None"]]
    /\ linkerCalls = [p \in PlatformNames |-> [m \in Modules |-> 0]]
    /\ modulesOf = [p \in PlatformNames |-> <<>>]
    /\ logged = EarlierLines(opts)
    /\ exitCode = 0
    /\ toDelete = {}
    /\ tree = [p \in PlatformNames |-> EmptyTree]
    /\ srcTime = [m \in Modules |-> 0]
    /\ clock = 0
    /\ frameworks = {}
    /\ restoreCalls = {}
    /\ treeAtStart = [p \in PlatformNames |-> EmptyTree]
    /\ settled = [p \in PlatformNames |-> {}]
    /\ secondRun = [p \in PlatformNames |-> FALSE]
    /\ bundles \in [MacSlices -> BundleStates]
    /\ bundlesAtStart = bundles
    /\ restoring = {}
    /\ created = {}

\* if (apple): each slice's callback runs to its first await, so the three
\* existence tests are made, and the calls they allow started, in one step.
RestoreBegin ==
    /\ pc = "restore"
    /\ pc' = "restoring"
    /\ frameworks' = OnDisk
    /\ restoreCalls' = {s \in MacSlices : existsSync(s, OnDisk)}
    /\ restoring' = {s \in MacSlices : existsSync(s, OnDisk)}
    /\ UNCHANGED <<opts, platforms, pi, discoveredOf, discoveryDone, mstate,
                   linkerCalls, modulesOf, logged, exitCode, toDelete, tree, srcTime,
                   clock, treeAtStart, settled, secondRun, cargoVars, bundles,
                   bundlesAtStart, created>>

\* One slice's restoreFrameworkLinks call settles; a rejection rejects the
\* Promise.all, and with it the action.
RestoreLinks(s) ==
    /\ pc \in {"restoring", "rejected"}
    /\ s \in restoring
    /\ restoring' = restoring \ {s}
    /\ LET r == restoreFrameworkLinks(bundles[s])
       IN  IF r.status = "returned"
           THEN /\ bundles' = [bundles EXCEPT ![s] = r.value]
                /\ created' = created \cup
                     {<<s, l>> : l \in r.value.links \ bundles[s].links}
                /\ UNCHANGED pc
           ELSE /\ pc' = "rejected"
                /\ UNCHANGED <<bundles, created>>
    /\ UNCHANGED <<opts, platforms, pi, discoveredOf, discoveryDone, mstate,
                   linkerCalls, modulesOf, logged, exitCode, toDelete, tree, srcTime,
                   clock, frameworks, restoreCalls, treeAtStart, settled, secondRun,
                   cargoVars, bundlesAtStart>>

\* Promise.all resolved: the action is over.
RestoreEnd ==
    /\ pc = "restoring"
    /\ restoring = {}
    /\ pc' = "done"
    /\ UNCHANGED <<opts, platforms, pi, discoveredOf, discoveryDone, mstate,
                   linkerCalls, modulesOf, logged, exitCode, toDelete, tree, srcTime,
                   clock, frameworks, restoreCalls, treeAtStart, settled, secondRun,
                   cargoVars, bundleVars>>

\* The command is run again on the prebuild the last run left, and comes to the
\* last platform of its loop as before.
Rerun ==
    /\ pc \in {"done", "rejected"}
    /\ pc' = "linking"
    /\ \E o \in LinkRuns :
        /\ opts' = o
        /\ platforms' = PlatformsOf(o)
        /\ pi' = Len(PlatformsOf(o))
        /\ discoveryDone' = [p \in PlatformNames |-> p \in Visited(o)]
        /\ logged' = EarlierLines(o)
    /\ modulesOf' = [p \in PlatformNames |-> <<>>]
    /\ exitCode' = 0
    /\ frameworks' = {}
    /\ restoreCalls' = {}
    /\ bundlesAtStart' = bundles
    /\ restoring' = {}
    /\ created' = {}
    /\ UNCHANGED <<discoveredOf, mstate, linkerCalls, toDelete, tree, srcTime, clock,
                   treeAtStart, settled, secondRun, cargoVars, bundles>>

RestoreNext ==
    \/ Report
    \/ PruneDone
    \/ RestoreBegin
    \/ \E s \in MacSlices : RestoreLinks(s)
    \/ RestoreEnd
    \/ Rerun

SpecRestore == RestoreInit /\ [][RestoreNext]_vars

\* The restoration of this run has made its existence tests.
RestorationRan == pc = "restoring" \/ (pc = "done" /\ opts.apple)

HadFramework(s) == bundlesAtStart[s].kind = "framework"
WasRestored(s) == HadFramework(s) /\ bundlesAtStart[s].links = FrameworkLinks
CreatedIn(s) == {c \in created : c[1] = s}

\* C11: the restoration never fails because a macOS slice or its framework
\* bundle is absent: whatever subset of the three slices holds a bundle,
\* restoreFrameworkLinks is invoked for exactly the slices that hold one, the
\* others are skipped and left as they were, every bundle found ends with all
\* its links, and a bundle that already had them is not changed and gets no link
\* created.
C11_RestoreSkipsMissing ==
    /\ pc # "rejected"
    /\ RestorationRan => restoreCalls = {s \in MacSlices : HadFramework(s)}
    /\ ~RestorationRan => restoreCalls = {}
    /\ \A s \in MacSlices :
        /\ ~HadFramework(s) => bundles[s] = bundlesAtStart[s] /\ CreatedIn(s) = {}
        /\ WasRestored(s) => bundles[s] = bundlesAtStart[s] /\ CreatedIn(s) = {}
        /\ (pc = "done" /\ opts.apple /\ HadFramework(s)) =>
              bundles[s].links = FrameworkLinks

\* C11 witness: a finished restoration of a prebuild with one slice missing, one
\* slice without a bundle, and one bundle whose links were already in place.
C11_Witness ==
    /\ pc = "done"
    /\ opts.apple
    /\ bundlesAtStart["macos-x86_64"].kind = "noSlice"
    /\ bundlesAtStart["macos-arm64"].kind = "noFramework"
    /\ WasRestored("macos-arm64_x86_64")
    /\ restoreCalls = {"macos-arm64_x86_64"}
    /\ bundles = bundlesAtStart
    /\ created = {}


(* ------------------------------------------- link: one module's lifecycle *)
\* The steps of a module within a run.
LifecycleSteps ==
    {<<"None", "Discovered">>,
     <<"Discovered", "UpToDate">>, <<"Discovered", "Materializing">>,
     <<"Materializing", "Linked">>, <<"Materializing", "Failed">>}

\* The module's state changes by a step of the lifecycle, or is forgotten with
\* the process that held it.
LifecycleStep(p, m) ==
    \/ mstate'[p][m] = mstate[p][m]
    \/ <<mstate[p][m], mstate'[p][m]>> \in LifecycleSteps
    \/ pc' = "idle" /\ mstate'[p][m] = "None"

\* The platform linker was invoked for exactly the modules that went on to
\* Materializing, once each.
LinkerCalledOnce(p, m) ==
    linkerCalls[p][m] =
        IF mstate[p][m] \in {"Materializing", "Linked", "Failed"} THEN 1 ELSE 0

\* The results in `modules` that are about m.
ResultsFor(p, m) ==
    {i \in 1..Len(modulesOf[p]) : modulesOf[p][i].originalPath = m}

\* The one result a module's final state stands for.
FinalResult(p, m) ==
    CASE mstate[p][m] = "UpToDate" -> [success |-> TRUE, skipped |-> TRUE]
      [] mstate[p][m] = "Linked" -> [success |-> TRUE, skipped |-> FALSE]
      [] mstate[p][m] = "Failed" -> [success |-> FALSE, skipped |-> FALSE]
      [] OTHER -> [success |-> FALSE, skipped |-> TRUE]

\* What a LinkResult says.
Outcome(result) ==
    [success |-> IsLinked(result) /\ ~IsFailure(result),
     skipped |-> IF IsLinked(result) THEN result.skipped
                 ELSE IF IsFailure(result) THEN FALSE ELSE TRUE]

\* Once linkModules has resolved for a platform, each module it discovered has
\* ended, and has one result, the one of the state it ended in.
OneResult(p) ==
    modulesOf[p] # <<>> =>
        /\ Len(modulesOf[p]) = Cardinality(discoveredOf[p])
        /\ \A m \in discoveredOf[p] :
            /\ mstate[p][m] \in Terminal
            /\ Cardinality(ResultsFor(p, m)) = 1
            /\ \A i \in ResultsFor(p, m) :
                /\ IsLinked(modulesOf[p][i]) # IsFailure(modulesOf[p][i])
                /\ Outcome(modulesOf[p][i]) = FinalResult(p, m)

\* C12: within one run each discovered module goes from Discovered to exactly
\* one of UpToDate, or Materializing and from there to exactly one of Linked or
\* Failed, and never leaves the state it ended in; the platform linker is invoked
\* at most once per module, exactly for the modules that reach Materializing;
\* and every module ends with exactly one result: success with skipped true
\* (UpToDate), success with skipped false (Linked), or failure (Failed).
C12_OneLifecyclePerModule ==
    /\ [](\A p \in PlatformNames :
            /\ OneResult(p)
            /\ \A m \in Modules :
                /\ LinkerCalledOnce(p, m)
                /\ mstate[p][m] # "None" => m \in discoveredOf[p])
    /\ [][\A p \in PlatformNames, m \in Modules : LifecycleStep(p, m)]_vars

\* C12 witness: a finished run in which one module was up to date and the other
\* went through the platform linker, which failed, each with its one result.
C12_Witness ==
    /\ pc = "done"
    /\ discoveredOf["android"] = Modules
    /\ Len(modulesOf["android"]) = NumModules
    /\ \E m \in Modules :
        /\ mstate["android"][m] = "UpToDate"
        /\ linkerCalls["android"][m] = 0
    /\ \E m \in Modules :
        /\ mstate["android"][m] = "Failed"
        /\ linkerCalls["android"][m] = 1

====
